---- MODULE Spec2Model ----
(***************************************************************************)
(* Model of translation_checker.py: the pipeline run by main().           *)
(*   parse_xml -> get_csv_output (check_translations per unit)            *)
(*             -> filter -> sorted(..., reverse=True) -> write_csv_file   *)
(* A Python str is a sequence of one-character strings, so that strip(),  *)
(* replace(), lower(), the f-string formatting of the confidence and the  *)
(* str comparison used as the sort key are computed character by          *)
(* character.                                                             *)
(***************************************************************************)
EXTENDS Integers, Sequences, FiniteSets, TLC

VARIABLES
    doc,              \* the resource document at config.resourcePath
    model,            \* the loaded fastText model: text -> prediction
    language,         \* config.language
    file,             \* content of the file at config.outputPath: rows
    pc,               \* position of the process in main()
    children,         \* parse_xml: root.findall("string")
    i,                \* index of the loop being run (parse_xml, get_csv_output)
    tags,             \* main: tags / parse_xml: result
    csvOutput,        \* main: csvOutput / get_csv_output: csvOutput
    filtered_output,  \* main: filtered_output
    sorted_output,    \* main: sorted_output
    run,              \* which invocation of the program this is
    oldFile,          \* the output file as it was when this invocation began
    opens,            \* times this invocation opened the output file
    calls             \* times this invocation called model.predict

vars == <<doc, model, language, file, pc, children, i, tags, csvOutput,
          filtered_output, sorted_output, run, oldFile, opens, calls>>

----------------------------------------------------------------------------
(* Bounds *)

\* longest list of children of the root in the documents of Spec
MaxElems == 3

\* longest list of children of the root in the documents of SpecParse
MaxParseElems == 2

\* number of invocations of the program on the same document
MaxRuns == 2

----------------------------------------------------------------------------
(* Python values *)

NL == "\n"

TAB == "\t"

\* None, as returned by dict.get for a missing key
PyNone == [type |-> "NoneType", val |-> <<>>]

\* a str value
PyStr(s) == [type |-> "str", val |-> s]

\* the bool literal False
PyFalse == [type |-> "bool", val |-> <<"F", "a", "l", "s", "e">>]

\* Python ==: values of different types (str, bool, NoneType) are unequal
PyEq(a, b) == a.type = b.type /\ a.val = b.val

\* str.isspace for one character
IsSpace(c) == c \in {" ", NL, TAB, "\r", "\f"}

RECURSIVE LStrip(_)
LStrip(s) ==
    IF s = <<>> THEN <<>>
    ELSE IF IsSpace(Head(s)) THEN LStrip(Tail(s)) ELSE s

RECURSIVE RStrip(_)
RStrip(s) ==
    IF s = <<>> THEN <<>>
    ELSE IF IsSpace(s[Len(s)]) THEN RStrip(SubSeq(s, 1, Len(s) - 1)) ELSE s

\* str.strip()
Strip(s) == RStrip(LStrip(s))

\* str.replace(old, new), old non-empty: every occurrence, left to right
RECURSIVE Replace(_, _, _)
Replace(s, old, new) ==
    IF Len(s) < Len(old) THEN s
    ELSE IF SubSeq(s, 1, Len(old)) = old
         THEN new \o Replace(SubSeq(s, Len(old) + 1, Len(s)), old, new)
         ELSE <<Head(s)>> \o Replace(Tail(s), old, new)

UpperCase ==
    <<"A", "B", "C", "D", "E", "F", "G", "H", "I", "J", "K", "L", "M",
      "N", "O", "P", "Q", "R", "S", "T", "U", "V", "W", "X", "Y", "Z">>

LowerCase ==
    <<"a", "b", "c", "d", "e", "f", "g", "h", "i", "j", "k", "l", "m",
      "n", "o", "p", "q", "r", "s", "t", "u", "v", "w", "x", "y", "z">>

LowerChar(c) ==
    IF \E k \in 1..Len(UpperCase) : UpperCase[k] = c
    THEN LowerCase[CHOOSE k \in 1..Len(UpperCase) : UpperCase[k] = c]
    ELSE c

\* str.lower()
Lower(s) == [k \in 1..Len(s) |-> LowerChar(s[k])]

\* ord() of the characters a formatted confidence is made of
Ord(c) ==
    CASE c = "%" -> 37
      [] c = "." -> 46
      [] c = "0" -> 48
      [] c = "1" -> 49
      [] c = "2" -> 50
      [] c = "3" -> 51
      [] c = "4" -> 52
      [] c = "5" -> 53
      [] c = "6" -> 54
      [] c = "7" -> 55
      [] c = "8" -> 56
      [] c = "9" -> 57

DigitValue(c) == Ord(c) - Ord("0")

\* the number a formatted confidence shows, in hundredths of a percent
RECURSIVE Value(_)
Value(s) ==
    IF s = <<>> THEN 0
    ELSE LET c == s[Len(s)]
             rest == SubSeq(s, 1, Len(s) - 1)
         IN  IF c \in {".", "%"} THEN Value(rest) ELSE Value(rest) * 10 + DigitValue(c)

\* str < str: lexicographic by code point, a proper prefix is smaller
RECURSIVE StrLess(_, _)
StrLess(a, b) ==
    IF b = <<>> THEN FALSE
    ELSE IF a = <<>> THEN TRUE
    ELSE IF Ord(Head(a)) < Ord(Head(b)) THEN TRUE
    ELSE IF Ord(Head(a)) > Ord(Head(b)) THEN FALSE
    ELSE StrLess(Tail(a), Tail(b))

Digit(d) == <<"0", "1", "2", "3", "4", "5", "6", "7", "8", "9">>[d + 1]

\* the decimal digits of a natural number, no leading zero
RECURSIVE Digits(_)
Digits(n) == IF n < 10 THEN <<Digit(n)>> ELSE Digits(n \div 10) \o <<Digit(n % 10)>>

\* f"{p * 100:.2f}%" for the probability p = raw / 100000: the percentage
\* raw / 1000 rounded to two decimals, then the '%' sign
FormatConfidence(raw) ==
    LET q == raw \div 10
        r == raw % 10
        h == IF r > 5 \/ (r = 5 /\ q % 2 = 1) THEN q + 1 ELSE q
    IN  Digits(h \div 100) \o <<".">> \o <<Digit((h % 100) \div 10), Digit(h % 10)>>
            \o <<"%">>

----------------------------------------------------------------------------
(* parse_xml *)

\* ''.join(elem.itertext()): the text fragments of the element and of its
\* descendants, concatenated
RECURSIVE Join(_)
Join(frags) == IF frags = <<>> THEN <<>> ELSE Head(frags) \o Join(Tail(frags))

get_all_text(elem) == Join(elem.itertext)

\* child.attrib.get(key)
AttribGet(elem, key) ==
    IF key \in DOMAIN elem.attrib THEN PyStr(elem.attrib[key]) ELSE PyNone

\* root.findall("string"): the children of the root with that tag, in
\* document order
FindAll(root, tag) == SelectSeq(root, LAMBDA e : e.tag = tag)

\* the test of line 91: the attribute (a str or None) against the bool False
SkipUntranslatable(child) == PyEq(AttribGet(child, "translatable"), PyFalse)

\* the test of line 94
SkipEmpty(child) == Strip(get_all_text(child)) = <<>>

\* line 99 without the replacement of the newlines
ProcessedText_NoReplace(child) == Strip(get_all_text(child))

\* line 99
ProcessedText(child) == Strip(Replace(get_all_text(child), <<NL>>, <<" ">>))

\* lines 100-105
StringTag(child) == [text |-> ProcessedText(child), name |-> AttribGet(child, "name").val]

----------------------------------------------------------------------------
(* check_translations *)

LabelPrefix == <<"_", "_", "l", "a", "b", "e", "l", "_", "_">>

En == <<"e", "n">>

Fr == <<"f", "r">>

\* a label the language-code registry does not resolve
Zz == <<"z", "z">>

English == <<"E", "n", "g", "l", "i", "s", "h">>

French == <<"F", "r", "e", "n", "c", "h">>

\* langcodes.get(code) raises for a code it cannot resolve
Resolves(code) == code \in {En, Fr}

\* langcodes.get(code).language_name()
LanguageName(code) == IF code = En THEN English ELSE French

\* line 111
LanguageCode(label) == Replace(label, LabelPrefix, <<>>)

\* check_translations raises on this text
Raises(text) == ~Resolves(LanguageCode(model[text].label))

\* the TranslationResult check_translations returns
check_translations(text) ==
    [text       |-> text,
     language   |-> LanguageName(LanguageCode(model[text].label)),
     confidence |-> FormatConfidence(model[text].prob)]

\* lines 122-127
CSVOutput(tag) ==
    [text       |-> tag.text,
     name       |-> tag.name,
     language   |-> check_translations(tag.text).language,
     confidence |-> check_translations(tag.text).confidence]

----------------------------------------------------------------------------
(* main: filter, sort; write_csv_file *)

\* line 153 comparing the names as they are spelled
Filter_CaseSensitive(output, lang) == SelectSeq(output, LAMBDA c : c.language # lang)

\* line 153
Filter(output, lang) == SelectSeq(output, LAMBDA c : Lower(c.language) # Lower(lang))

\* the order of a sort key float(c.confidence[:-1])
KeyLess_Numeric(a, b) == Value(a.confidence) < Value(b.confidence)

\* the order of the sort key (line 156): c.confidence, a str
KeyLess(a, b) == StrLess(a.confidence, b.confidence)

\* x put into the descending list s behind every element not smaller than it
RECURSIVE InsertDescending(_, _)
InsertDescending(x, s) ==
    IF s = <<>> THEN <<x>>
    ELSE IF KeyLess(Head(s), x) THEN <<x>> \o s
    ELSE <<Head(s)>> \o InsertDescending(x, Tail(s))

\* sorted(s, key=..., reverse=True): descending and stable (elements with
\* equal keys keep their original order)
RECURSIVE Sorted(_)
Sorted(s) ==
    IF s = <<>> THEN <<>>
    ELSE InsertDescending(s[Len(s)], Sorted(SubSeq(s, 1, Len(s) - 1)))

Header ==
    << <<"N", "a", "m", "e">>, <<"T", "e", "x", "t">>,
       <<"L", "a", "n", "g", "u", "a", "g", "e">>,
       <<"C", "o", "n", "f", "i", "d", "e", "n", "c", "e">> >>

\* line 138
Row(word) == <<word.name, word.text, word.language, word.confidence>>

\* the file after write_csv_file had it opened the file with mode="a"
WrittenFile_Append(old, csv_output) ==
    old \o <<Header>> \o [k \in 1..Len(csv_output) |-> Row(csv_output[k])]

\* the file after write_csv_file: open(mode="w") truncates what was there
WrittenFile(old, csv_output) ==
    <<Header>> \o [k \in 1..Len(csv_output) |-> Row(csv_output[k])]

----------------------------------------------------------------------------
(* Inputs *)

SeqsUpTo(S, n) == UNION {[1..k -> S] : k \in 0..n}

N1 == <<"n", "1">>

N2 == <<"n", "2">>

N3 == <<"n", "3">>

FalseStr == <<"f", "a", "l", "s", "e">>

Malformed == [wellFormed |-> FALSE, root |-> <<>>]

Document(root) == [wellFormed |-> TRUE, root |-> root]

StringElem(attrib, itertext) == [tag |-> "string", attrib |-> attrib, itertext |-> itertext]

\* the children of the root in the documents of Spec
PipeElements ==
    { StringElem([name |-> N1], << <<"a">> >>),
      StringElem([name |-> N2], << <<"b">> >>),
      StringElem([name |-> N3, translatable |-> FalseStr], << <<"a">> >>) }

PipeTexts == { <<"a">>, <<"b">> }

Predictions ==
    [label : {LabelPrefix \o En, LabelPrefix \o Fr, LabelPrefix \o Zz},
     prob  : {9496, 10204, 100000}]

Languages == { <<"e", "n", "g", "l", "i", "s", "h">>, <<"F", "R", "E", "N", "C", "H">> }

\* a file left at the output path by something else
StaleFile == << << <<"s", "t", "a", "l", "e">> >> >>

\* the text fragments of the <string> elements in the documents of SpecParse
ParseItertexts ==
    { <<>>,
      << <<" ", NL>> >>,
      << <<TAB>>, <<NL>> >>,
      << <<"a">> >>,
      << <<" ", "a", NL>> >>,
      << <<"a", NL, "b">> >>,
      << <<"a", TAB, "b">> >>,
      << <<"a">>, <<" ">>, <<"b">> >>,
      << <<NL>>, <<"b">>, <<TAB>> >>,
      << <<NL, "a", NL, NL, "b", " ">> >> }

ParseElements ==
    { StringElem(a, t) :
        a \in {[name |-> N1], [name |-> N2],
               [name |-> N1, translatable |-> FalseStr],
               [name |-> N2, translatable |-> FalseStr]},
        t \in ParseItertexts }
    \cup { [tag |-> "plurals", attrib |-> [name |-> N3], itertext |-> << <<"a">> >>] }

----------------------------------------------------------------------------
(* The state machine *)

Locals ==
    /\ pc = "parse_xml"
    /\ children = <<>>
    /\ i = 1
    /\ tags = <<>>
    /\ csvOutput = <<>>
    /\ filtered_output = <<>>
    /\ sorted_output = <<>>
    /\ opens = 0
    /\ calls = 0

Init ==
    /\ doc \in {Malformed} \cup {Document(r) : r \in SeqsUpTo(PipeElements, MaxElems)}
    /\ model \in [PipeTexts -> Predictions]
    /\ language \in Languages
    /\ file = StaleFile
    /\ oldFile = file
    /\ run = 1
    /\ Locals

InitParse ==
    /\ doc \in {Malformed} \cup {Document(r) : r \in SeqsUpTo(ParseElements, MaxParseElems)}
    /\ model = [t \in PipeTexts |-> [label |-> LabelPrefix \o Fr, prob |-> 100000]]
    /\ language = English
    /\ file = StaleFile
    /\ oldFile = file
    /\ run = 1
    /\ Locals

\* parse_xml, lines 86-89: ET.parse raises on a document that is not well-formed
ParseXmlOpen ==
    /\ pc = "parse_xml"
    /\ IF doc.wellFormed
       THEN /\ children' = FindAll(doc.root, "string")
            /\ pc' = "parse_loop"
       ELSE /\ children' = children
            /\ pc' = "aborted"
    /\ i' = 1
    /\ tags' = <<>>
    /\ UNCHANGED <<doc, model, language, file, csvOutput, filtered_output,
                   sorted_output, run, oldFile, opens, calls>>

\* parse_xml, lines 90-105: one iteration of the loop
ParseXmlIter ==
    /\ pc = "parse_loop"
    /\ i <= Len(children)
    /\ tags' = IF SkipUntranslatable(children[i]) THEN tags
               ELSE IF SkipEmpty(children[i]) THEN tags
               ELSE Append(tags, StringTag(children[i]))
    /\ i' = i + 1
    /\ UNCHANGED <<doc, model, language, file, pc, children, csvOutput,
                   filtered_output, sorted_output, run, oldFile, opens, calls>>

\* parse_xml, line 106, and the entry of get_csv_output, line 118
ParseXmlReturn ==
    /\ pc = "parse_loop"
    /\ i > Len(children)
    /\ pc' = "get_csv_output"
    /\ i' = 1
    /\ csvOutput' = <<>>
    /\ UNCHANGED <<doc, model, language, file, children, tags, filtered_output,
                   sorted_output, run, oldFile, opens, calls>>

\* get_csv_output's iteration skipping a unit whose text it has seen
GetCsvOutputIter_Dedup ==
    /\ pc = "get_csv_output"
    /\ i <= Len(tags)
    /\ calls' = calls + 1
    /\ IF Raises(tags[i].text)
       THEN /\ pc' = "aborted"
            /\ UNCHANGED <<csvOutput, i>>
       ELSE /\ csvOutput' = IF \E k \in 1..Len(csvOutput) : csvOutput[k].text = tags[i].text
                            THEN csvOutput
                            ELSE Append(csvOutput, CSVOutput(tags[i]))
            /\ i' = i + 1
            /\ pc' = pc
    /\ UNCHANGED <<doc, model, language, file, children, tags, filtered_output,
                   sorted_output, run, oldFile, opens>>

\* get_csv_output's iteration catching the exception and going on
GetCsvOutputIter_SkipBad ==
    /\ pc = "get_csv_output"
    /\ i <= Len(tags)
    /\ calls' = calls + 1
    /\ csvOutput' = IF Raises(tags[i].text) THEN csvOutput
                    ELSE Append(csvOutput, CSVOutput(tags[i]))
    /\ i' = i + 1
    /\ UNCHANGED <<doc, model, language, file, pc, children, tags, filtered_output,
                   sorted_output, run, oldFile, opens>>

\* get_csv_output, lines 119-128: one iteration; an exception of
\* check_translations is caught nowhere and ends the process
GetCsvOutputIter ==
    /\ pc = "get_csv_output"
    /\ i <= Len(tags)
    /\ calls' = calls + 1
    /\ IF Raises(tags[i].text)
       THEN /\ pc' = "aborted"
            /\ UNCHANGED <<csvOutput, i>>
       ELSE /\ csvOutput' = Append(csvOutput, CSVOutput(tags[i]))
            /\ i' = i + 1
            /\ pc' = pc
    /\ UNCHANGED <<doc, model, language, file, children, tags, filtered_output,
                   sorted_output, run, oldFile, opens>>

\* get_csv_output, line 130
GetCsvOutputReturn ==
    /\ pc = "get_csv_output"
    /\ i > Len(tags)
    /\ pc' = "filter"
    /\ UNCHANGED <<doc, model, language, file, children, i, tags, csvOutput,
                   filtered_output, sorted_output, run, oldFile, opens, calls>>

\* main, line 153
FilterOutput ==
    /\ pc = "filter"
    /\ filtered_output' = Filter(csvOutput, language)
    /\ pc' = "sort"
    /\ UNCHANGED <<doc, model, language, file, children, i, tags, csvOutput,
                   sorted_output, run, oldFile, opens, calls>>

\* main, line 156
SortOutput ==
    /\ pc = "sort"
    /\ sorted_output' = Sorted(filtered_output)
    /\ pc' = "write_csv_file"
    /\ UNCHANGED <<doc, model, language, file, children, i, tags, csvOutput,
                   filtered_output, run, oldFile, opens, calls>>

\* main, line 159, handing write_csv_file the unsorted list
WriteCsvFile_Unsorted ==
    /\ pc = "write_csv_file"
    /\ file' = WrittenFile(file, filtered_output)
    /\ opens' = opens + 1
    /\ pc' = "done"
    /\ UNCHANGED <<doc, model, language, children, i, tags, csvOutput,
                   filtered_output, sorted_output, run, oldFile, calls>>

\* main, line 159: write_csv_file
WriteCsvFile ==
    /\ pc = "write_csv_file"
    /\ file' = WrittenFile(file, sorted_output)
    /\ opens' = opens + 1
    /\ pc' = "done"
    /\ UNCHANGED <<doc, model, language, children, i, tags, csvOutput,
                   filtered_output, sorted_output, run, oldFile, calls>>

\* the program is run again on the same document, configuration and model;
\* only the output file is carried over
RunAgain ==
    /\ pc \in {"done", "aborted"}
    /\ run < MaxRuns
    /\ run' = run + 1
    /\ oldFile' = file
    /\ pc' = "parse_xml"
    /\ children' = <<>>
    /\ i' = 1
    /\ tags' = <<>>
    /\ csvOutput' = <<>>
    /\ filtered_output' = <<>>
    /\ sorted_output' = <<>>
    /\ opens' = 0
    /\ calls' = 0
    /\ UNCHANGED <<doc, model, language, file>>

Next ==
    \/ ParseXmlOpen
    \/ ParseXmlIter
    \/ ParseXmlReturn
    \/ GetCsvOutputIter
    \/ GetCsvOutputReturn
    \/ FilterOutput
    \/ SortOutput
    \/ WriteCsvFile
    \/ RunAgain

Spec == Init /\ [][Next]_vars

NextParse ==
    \/ ParseXmlOpen
    \/ ParseXmlIter
    \/ ParseXmlReturn

SpecParse == InitParse /\ [][NextParse]_vars

----------------------------------------------------------------------------
(* Definitions the properties are stated with *)

\* a is before b in the lexicographic order of their code points
LexLess(a, b) ==
    \E n \in 0..Len(a) :
        /\ n <= Len(b)
        /\ \A k \in 1..n : a[k] = b[k]
        /\ \/ n = Len(a) /\ n < Len(b)
           \/ n < Len(a) /\ n < Len(b) /\ Ord(a[n + 1]) < Ord(b[n + 1])

\* a and b are the same up to the case of their letters
SameIgnoringCase(a, b) ==
    /\ Len(a) = Len(b)
    /\ \A k \in 1..Len(a) :
          \/ a[k] = b[k]
          \/ \E j \in 1..Len(UpperCase) : {a[k], b[k]} = {UpperCase[j], LowerCase[j]}

MarkedUntranslatable(e) ==
    "translatable" \in DOMAIN e.attrib /\ e.attrib["translatable"] = FalseStr

\* the concatenated text of e has a character that is not whitespace
NonBlank(e) ==
    \E f \in 1..Len(e.itertext) : \E j \in 1..Len(e.itertext[f]) :
        ~IsSpace(e.itertext[f][j])

ValidElement(e) == e.tag = "string" /\ ~MarkedUntranslatable(e) /\ NonBlank(e)

\* the units of the valid elements of the document, in document order
ExpectedUnits(root) ==
    LET valid == SelectSeq(root, ValidElement)
    IN  [k \in 1..Len(valid) |->
            [text |-> ProcessedText(valid[k]), name |-> valid[k].attrib["name"]]]

\* children of the root that parse_xml's loop has been through
Processed == IF pc = "parse_loop" THEN i - 1 ELSE Len(children)

\* the units whose language code cannot be resolved
BadUnits == {k \in 1..Len(tags) : Raises(tags[k].text)}

FirstBadUnit == CHOOSE k \in BadUnits : \A j \in BadUnits : k <= j

\* the results that differ from the expected language
Retained == SelectSeq(csvOutput, LAMBDA c : ~SameIgnoringCase(c.language, language))

IsPermutation(s, t) ==
    /\ Len(s) = Len(t)
    /\ \E p \in [1..Len(s) -> 1..Len(s)] :
          /\ \A a, b \in 1..Len(s) : p[a] = p[b] => a = b
          /\ \A k \in 1..Len(s) : s[k] = t[p[k]]

\* the data rows of the output file
DataRows == 2..Len(file)

----------------------------------------------------------------------------
(* Properties *)

\* C1: an iteration of parse_xml's loop on a <string> element whose
\* translatable attribute is "false" appends no unit.
C1_UntranslatableNeverEmitted ==
    [][(pc = "parse_loop" /\ i <= Len(children) /\ MarkedUntranslatable(children[i]))
          => tags' = tags]_vars

\* C2: no row of the written file has a language equal to the expected
\* language up to case; when every result is the expected language the file
\* holds the header row only.
C2_NoRowInExpectedLanguage ==
    pc = "done" =>
        /\ \A k \in DataRows : ~SameIgnoringCase(file[k][3], language)
        /\ (\A k \in 1..Len(csvOutput) : SameIgnoringCase(csvOutput[k].language, language))
              => file = <<Header>>

\* C2 witness: the file is written, a result in the expected language but
\* spelled in another case was dropped, and another result was kept.
C2_Witness ==
    /\ pc = "done"
    /\ Len(file) >= 2
    /\ \E k \in 1..Len(csvOutput) :
          /\ SameIgnoringCase(csvOutput[k].language, language)
          /\ csvOutput[k].language # language

\* C3: the rows of the written file are in descending order of the number
\* their confidence shows.
C3_NumericDescending ==
    pc = "done" =>
        \A k \in DataRows : k + 1 \in DataRows => Value(file[k][4]) >= Value(file[k + 1][4])

\* C4: parse_xml returns exactly the units of the <string> elements that are
\* not marked translatable=false and have non-blank text, in document order.
C4_ExactlyValidUnits ==
    pc = "get_csv_output" => tags = ExpectedUnits(doc.root)

\* C5: get_csv_output holds one result per unit gone through, in the order of
\* the units, each with its unit's name and text and with the language and
\* confidence the identifier gives for that text.
C5_OneResultPerUnit ==
    /\ pc = "get_csv_output" => Len(csvOutput) = i - 1
    /\ pc \in {"filter", "sort", "write_csv_file", "done"} => Len(csvOutput) = Len(tags)
    /\ Len(csvOutput) <= Len(tags)
    /\ \A k \in 1..Len(csvOutput) :
          LET p == model[tags[k].text]
              code == SubSeq(p.label, Len(LabelPrefix) + 1, Len(p.label))
          IN  /\ csvOutput[k].name = tags[k].name
              /\ csvOutput[k].text = tags[k].text
              /\ csvOutput[k].language = (IF code = En THEN English ELSE French)
              /\ csvOutput[k].confidence = FormatConfidence(p.prob)

\* C5 witness: get_csv_output has returned for three units, two of
\* them with the same text and different names.
C5_Witness ==
    /\ pc = "filter"
    /\ Len(csvOutput) >= 3
    /\ \E a, b \in 1..Len(tags) :
          a < b /\ tags[a].text = tags[b].text /\ tags[a].name # tags[b].name

\* C6: when the document is malformed, or a unit's language code cannot be
\* resolved, the run never gets past the failing step: the output file is
\* not opened and keeps its content, and no unit after the failing one is
\* classified.
C6_FatalLeavesNoOutput ==
    /\ ~doc.wellFormed =>
          pc \in {"parse_xml", "aborted"} /\ opens = 0 /\ calls = 0 /\ file = oldFile
    /\ (doc.wellFormed /\ pc \notin {"parse_xml", "parse_loop"} /\ BadUnits # {}) =>
          /\ pc \in {"get_csv_output", "aborted"}
          /\ opens = 0
          /\ file = oldFile
          /\ calls <= FirstBadUnit
          /\ Len(csvOutput) < FirstBadUnit
    /\ pc = "aborted" => opens = 0 /\ file = oldFile

\* C6 witness: the run aborted on a unit that is neither the first nor the
\* last, with an output file already there.
C6_Witness ==
    /\ pc = "aborted"
    /\ doc.wellFormed
    /\ Len(csvOutput) >= 1
    /\ calls < Len(tags)
    /\ file = StaleFile

\* C7: a run that follows a run on the same document, configuration and
\* model writes the file the earlier run wrote.
C7_SecondRunSameFile ==
    (run >= 2 /\ pc = "done") => file = oldFile

\* C7 witness: the second run has written a file with two rows of equal
\* confidence.
C7_Witness ==
    /\ run >= 2
    /\ pc = "done"
    /\ \E k \in DataRows : k + 1 \in DataRows /\ file[k][4] = file[k + 1][4]
                              /\ file[k] # file[k + 1]

\* C8: the output file is untouched until the run is done; then it was
\* opened once, after every unit was classified, and holds the header row
\* followed by one row per retained result, in the sorted order, and nothing
\* of its earlier content.
C8_WrittenOnceWhole ==
    /\ pc # "done" => opens = 0 /\ file = oldFile
    /\ pc = "done" =>
          /\ opens = 1
          /\ Len(csvOutput) = Len(tags)
          /\ file[1] = Header
          /\ Len(file) = 1 + Len(sorted_output)
          /\ \A k \in 1..Len(sorted_output) :
                file[k + 1] = <<sorted_output[k].name, sorted_output[k].text,
                                sorted_output[k].language, sorted_output[k].confidence>>
          /\ IsPermutation(sorted_output, Retained)
          /\ \A k \in 1..Len(sorted_output) - 1 :
                ~LexLess(sorted_output[k].confidence, sorted_output[k + 1].confidence)

\* C8 witness: a run is done whose retained results were not in sorted
\* order, over a file something else had left there.
C8_Witness ==
    /\ pc = "done"
    /\ oldFile = StaleFile
    /\ Len(sorted_output) >= 3
    /\ sorted_output # filtered_output

C10_UnitTextNormalized ==
    /\ \A k \in 1..Len(tags) :
          LET t == tags[k].text
          IN  /\ t # <<>>
              /\ \A j \in 1..Len(t) : t[j] # NL
              /\ ~IsSpace(t[1])
              /\ ~IsSpace(t[Len(t)])
    /\ Len(tags) = Cardinality({k \in 1..Processed : NonBlank(children[k])})
    /\ doc.wellFormed => pc # "aborted"

\* C10 witness: parse_xml has returned on a document with an element of
\* whitespace only, which gave no unit, and an element with a newline inside
\* its text, which gave a unit.
C10_Witness ==
    /\ pc = "get_csv_output"
    /\ \E k \in 1..Len(children) :
          ~NonBlank(children[k]) /\ get_all_text(children[k]) # <<>>
    /\ \E k \in 1..Len(children) :
          /\ NonBlank(children[k])
          /\ \E j \in 2..Len(get_all_text(children[k])) - 1 :
                get_all_text(children[k])[j] = NL
                /\ ProcessedText(children[k])[j] = " "
    /\ Len(tags) = 1

====
